---------------------------- MODULE Spec2Model ----------------------------
(***************************************************************************)
(* VA images of the VDPAU backend (src/src/vdpau_image.c): the format      *)
(* catalog and its lookups, vaQueryImageFormats, vaCreateImage,            *)
(* vaDestroyImage and vaGetImage, as a state machine over the image heap,  *)
(* the buffer heap and the accelerator's output surfaces.                  *)
(*                                                                         *)
(* Every call is one action.  The calls a handler makes on its             *)
(* collaborators (object heap, buffer allocator, accelerator) are appended *)
(* to the call's log, last.trace, in the order the code makes them.        *)
(*                                                                         *)
(* Modelling conventions:                                                  *)
(*  - the build is the little-endian one (the #else branch of the          *)
(*    catalog);                                                            *)
(*  - object_image->image points at the caller's VAImage; the caller is    *)
(*    taken to keep one VAImage per image, alive and unmodified, so the    *)
(*    VAImage is held in the object itself;                                *)
(*  - pitches[] and offsets[] are kept up to num_planes, the entries the   *)
(*    code assigns;                                                        *)
(*  - pixel bytes are not modelled: a buffer's bytes change only through   *)
(*    an accelerator read-bits call, and every such call is in the log;    *)
(*    a read-bits call whose rows pass the end of the buffer is logged     *)
(*    like any other, and the bytes it writes there are not followed;      *)
(*  - the object heap, the buffer allocator, the status translation and    *)
(*    the accelerator are collaborators outside this file: a heap hands    *)
(*    out the head of its free list and a freed id becomes that head.      *)
(***************************************************************************)
EXTENDS Integers, Sequences, FiniteSets, TLC

\* ------------------------------------------------------------------ bounds

\* Slots of the image heap, of the buffer heap, and output-surface handles.
MaxImages == 2

\* Image widths and heights of the lifecycle specification: 1..MaxDim.
MaxDim == 2

\* Image widths and heights of the layout specification: 0..MaxLayoutDim.
MaxLayoutDim == 4

\* ------------------------------------------------------- program constants

\* 0xffffffff, the handle of no accelerator object: the 32-bit pattern
\* read as a signed number.
VDP_INVALID_HANDLE == -1

\* image->buf = 0: the id of no buffer.
NO_BUFFER == 0

\* (VdpYCbCrFormat)-1 and (VdpRGBAFormat)-1
NOT_FOUND == "NOT_FOUND"

VDP_IMAGE_FORMAT_TYPE_YCBCR == "YCBCR"

VDP_IMAGE_FORMAT_TYPE_RGBA == "RGBA"

\* ------------------------------------------------------------ the catalog

\* A VAImageFormat of a YUV format (DEF_YUV): the masks are left zero.
VaYuv(fourcc, bpp) ==
    [fourcc |-> fourcc, byte_order |-> "LSB", bits_per_pixel |-> bpp,
     depth |-> 0, red_mask |-> "0", green_mask |-> "0", blue_mask |-> "0",
     alpha_mask |-> "0"]

\* A VAImageFormat of an RGB format (DEF_RGB).  The masks are compared and
\* never computed with: they are kept as the source writes them.
VaRgb(fourcc, order, bpp, depth, r, g, b, a) ==
    [fourcc |-> fourcc, byte_order |-> order, bits_per_pixel |-> bpp,
     depth |-> depth, red_mask |-> r, green_mask |-> g, blue_mask |-> b,
     alpha_mask |-> a]

vdpau_image_formats_map ==
    << [type |-> VDP_IMAGE_FORMAT_TYPE_YCBCR, format |-> "NV12",
        va_format |-> VaYuv("NV12", 12)],
       [type |-> VDP_IMAGE_FORMAT_TYPE_YCBCR, format |-> "YV12",
        va_format |-> VaYuv("YV12", 12)],
       [type |-> VDP_IMAGE_FORMAT_TYPE_YCBCR, format |-> "UYVY",
        va_format |-> VaYuv("UYVY", 16)],
       [type |-> VDP_IMAGE_FORMAT_TYPE_YCBCR, format |-> "YUYV",
        va_format |-> VaYuv("YUYV", 16)],
       [type |-> VDP_IMAGE_FORMAT_TYPE_YCBCR, format |-> "V8U8Y8A8",
        va_format |-> VaYuv("AYUV", 32)],
       [type |-> VDP_IMAGE_FORMAT_TYPE_RGBA, format |-> "B8G8R8A8",
        va_format |-> VaRgb("RGBA", "LSB", 32, 32,
                            "0x00ff0000", "0x0000ff00", "0x000000ff", "0xff000000")],
       [type |-> VDP_IMAGE_FORMAT_TYPE_RGBA, format |-> "R8G8B8A8",
        va_format |-> VaRgb("RGBA", "LSB", 32, 32,
                            "0x000000ff", "0x0000ff00", "0x00ff0000", "0xff000000")] >>

CatalogIdx == 1..Len(vdpau_image_formats_map)

\* The loop of both lookups: the format of the first entry, in catalog
\* order, among the entries the lookup matches; NOT_FOUND when the loop ends
\* without a match.
FirstMatch(hits) ==
    IF hits = {} THEN NOT_FOUND
    ELSE vdpau_image_formats_map[CHOOSE i \in hits :
                                     \A j \in hits : i <= j].format

get_VdpYCbCrFormat(image_format) ==
    LET Match(m) == /\ m.type = VDP_IMAGE_FORMAT_TYPE_YCBCR
                    /\ m.va_format.fourcc = image_format.fourcc
    IN FirstMatch({i \in CatalogIdx : Match(vdpau_image_formats_map[i])})

get_VdpRGBAFormat(image_format) ==
    LET Match(m) == /\ m.type = VDP_IMAGE_FORMAT_TYPE_RGBA
                    /\ m.va_format.fourcc = image_format.fourcc
                    /\ m.va_format.byte_order = image_format.byte_order
                    /\ m.va_format.red_mask = image_format.red_mask
                    /\ m.va_format.green_mask = image_format.green_mask
                    /\ m.va_format.blue_mask = image_format.blue_mask
    IN FirstMatch({i \in CatalogIdx : Match(vdpau_image_formats_map[i])})

\* ------------------------------------------------------------ status codes

VA_STATUS_SUCCESS == "VA_STATUS_SUCCESS"

VA_STATUS_ERROR_OPERATION_FAILED == "VA_STATUS_ERROR_OPERATION_FAILED"

VA_STATUS_ERROR_ALLOCATION_FAILED == "VA_STATUS_ERROR_ALLOCATION_FAILED"

VA_STATUS_ERROR_INVALID_PARAMETER == "VA_STATUS_ERROR_INVALID_PARAMETER"

VA_STATUS_ERROR_INVALID_IMAGE == "VA_STATUS_ERROR_INVALID_IMAGE"

VA_STATUS_ERROR_INVALID_SURFACE == "VA_STATUS_ERROR_INVALID_SURFACE"

VA_STATUS_ERROR_INVALID_BUFFER == "VA_STATUS_ERROR_INVALID_BUFFER"

VA_STATUS_ERROR_INVALID_CONTEXT == "VA_STATUS_ERROR_INVALID_CONTEXT"

VDP_STATUS_OK == "VDP_STATUS_OK"

VDP_STATUS_ERROR == "VDP_STATUS_ERROR"

VDP_STATUS_INVALID_VALUE == "VDP_STATUS_INVALID_VALUE"

VdpStatuses == {VDP_STATUS_OK, VDP_STATUS_ERROR}

\* The translation of an accelerator status to the caller's taxonomy.
vdpau_get_VAStatus(vdp_status) ==
    IF vdp_status = VDP_STATUS_OK THEN VA_STATUS_SUCCESS
    ELSE VA_STATUS_ERROR_OPERATION_FAILED

\* ------------------------------------------------------ capability filter

\* What the accelerator answers to one capability query: the call's status
\* and the flag it reports (left VDP_FALSE when the call does not write it).
CapAnswers == [status : VdpStatuses, is_supported : BOOLEAN]

\* The accelerator's capability state: its answer for each catalog entry
\* (within the catalog, (type, format) names one entry).
CapStates == [CatalogIdx -> CapAnswers]

\* A variant of is_supported_format that reads the flag without looking at
\* the status of the query.
is_supported_format_NoStatus(cap, type, format) ==
    LET i == CHOOSE k \in CatalogIdx :
                 /\ vdpau_image_formats_map[k].type = type
                 /\ vdpau_image_formats_map[k].format = format
    IN type \in {VDP_IMAGE_FORMAT_TYPE_YCBCR, VDP_IMAGE_FORMAT_TYPE_RGBA}
       /\ cap[i].is_supported

\* cap is the accelerator behind driver_data.
is_supported_format(cap, type, format) ==
    LET i == CHOOSE k \in CatalogIdx :
                 /\ vdpau_image_formats_map[k].type = type
                 /\ vdpau_image_formats_map[k].format = format
        vdp_status ==
            IF type \in {VDP_IMAGE_FORMAT_TYPE_YCBCR,
                         VDP_IMAGE_FORMAT_TYPE_RGBA}
            THEN cap[i].status
            ELSE VDP_STATUS_INVALID_VALUE
    IN vdp_status = VDP_STATUS_OK /\ cap[i].is_supported

\* The fill loop: format_list after the entries 1..i of the catalog.
RECURSIVE FillFormatList(_, _)
FillFormatList(cap, i) ==
    IF i = 0 THEN << >>
    ELSE LET f == vdpau_image_formats_map[i]
             sofar == FillFormatList(cap, i - 1)
         IN IF is_supported_format(cap, f.type, f.format)
            THEN Append(sofar, f.va_format)
            ELSE sofar

\* vaQueryImageFormats: what the caller finds in *num_formats (NULL when it
\* passed no num_formats) and in format_list (nothing when it passed none).
QueryImageFormats(cap, has_format_list, has_num_formats) ==
    IF ~has_format_list
    THEN [status      |-> VA_STATUS_SUCCESS,
          format_list |-> << >>,
          num_formats |-> IF has_num_formats THEN 0 ELSE -1]
    ELSE LET list == FillFormatList(cap, Len(vdpau_image_formats_map))
         IN [status      |-> VA_STATUS_SUCCESS,
             format_list |-> list,
             num_formats |-> IF has_num_formats THEN Len(list) ELSE -1]

\* ----------------------------------------------------- plane layout planner

\* The conversion to unsigned int.  The dimensions of the model are
\* non-negative and their products far below 2^32, where the conversion
\* changes nothing.
U32(n) == n

Layout(num_planes, pitches, offsets, data_size) ==
    [num_planes |-> num_planes, pitches |-> pitches, offsets |-> offsets,
     data_size |-> data_size]

\* A variant of the layout whose half dimensions are rounded down.
ImageLayout_FloorHalf(fourcc, width, height) ==
    LET size    == U32(width * height)
        width2  == U32(width \div 2)
        height2 == U32(height \div 2)
        size2   == U32(width2 * height2)
    IN CASE fourcc = "NV12" ->
              Layout(2, <<U32(width), U32(width)>>, <<0, size>>,
                     U32(size + 2 * size2))
         [] fourcc = "YV12" ->
              Layout(3, <<U32(width), width2, width2>>,
                     <<0, U32(size + size2), size>>,
                     U32(size + 2 * size2))
         [] fourcc \in {"RGBA", "UYVY", "YUYV"} ->
              Layout(1, <<U32(width * 4)>>, <<0>>,
                     U32(0 + U32(width * 4) * height))
         [] OTHER -> Layout(0, << >>, << >>, 0)

\* The layout the switch stores in the VAImage; num_planes = 0 stands for
\* the default case, which stores nothing.
ImageLayout(fourcc, width, height) ==
    LET size    == U32(width * height)
        width2  == U32((width + 1) \div 2)
        height2 == U32((height + 1) \div 2)
        size2   == U32(width2 * height2)
    IN CASE fourcc = "NV12" ->
              Layout(2, <<U32(width), U32(width)>>, <<0, size>>,
                     U32(size + 2 * size2))
         [] fourcc = "YV12" ->
              Layout(3, <<U32(width), width2, width2>>,
                     <<0, U32(size + size2), size>>,
                     U32(size + 2 * size2))
         [] fourcc \in {"RGBA", "UYVY", "YUYV"} ->
              Layout(1, <<U32(width * 4)>>, <<0>>,
                     U32(0 + U32(width * 4) * height))
         [] OTHER -> Layout(0, << >>, << >>, 0)

\* ------------------------------------------------------------ object heaps

\* An object heap: the objects by id and the list of free ids.  Allocation
\* takes the head of the free list and a freed id becomes its head.
ImageIds == 1..MaxImages

BufferIds == 1..MaxImages

OutputSurfaceHandles == 1..MaxImages

\* A VAImage nothing was stored in, and a slot of the image heap that
\* holds no object.
NullVAImage ==
    [image_id |-> 0, buf |-> NO_BUFFER, format |-> VaYuv("", 0),
     width |-> 0, height |-> 0, num_planes |-> 0, pitches |-> << >>,
     offsets |-> << >>, data_size |-> 0]

NullImage ==
    [allocated |-> FALSE, image |-> NullVAImage,
     vdp_rgba_surface |-> VDP_INVALID_HANDLE]

NullBuffer == [allocated |-> FALSE, size |-> 0]

EmptyHeap(ids, null) ==
    [free |-> [i \in 1..Cardinality(ids) |-> i], obj |-> [i \in ids |-> null]]

\* The id object_heap_allocate returns: negative when the heap is exhausted.
object_heap_allocate(heap) ==
    IF heap.free = << >> THEN -1 ELSE Head(heap.free)

\* The heap once object_heap_allocate has handed out id, holding obj.
HeapAllocated(heap, id, obj) ==
    [free |-> Tail(heap.free), obj |-> [heap.obj EXCEPT ![id] = obj]]

object_heap_free(heap, id, null) ==
    [free |-> <<id>> \o heap.free, obj |-> [heap.obj EXCEPT ![id] = null]]

\* NULL (the null object) for an id that is free or outside the heap.
object_heap_lookup(heap, id, null) ==
    IF id \in DOMAIN heap.obj /\ heap.obj[id].allocated
    THEN heap.obj[id] ELSE null

VDPAU_IMAGE(st, image_id) == object_heap_lookup(st.image_heap, image_id, NullImage)

VDPAU_BUFFER(st, buf) == object_heap_lookup(st.buffer_heap, buf, NullBuffer)

\* ------------------------------------------------------- the driver state

\* One call on a collaborator, as the log keeps it.
Ev(call, arg) == [call |-> call, arg |-> arg]

Logged(st, call, arg) == [st EXCEPT !.trace = Append(@, Ev(call, arg))]

\* vdpau_output_surface_create: VDP_INVALID_HANDLE when the accelerator
\* rejects the request (ok = FALSE, or no handle is left).
NewOutputSurface(st, ok) ==
    LET unused == OutputSurfaceHandles \ st.output_surfaces
    IN IF ok /\ unused # {}
       THEN CHOOSE h \in unused : \A g \in unused : h <= g
       ELSE VDP_INVALID_HANDLE

vdpau_output_surface_create(st, handle) ==
    Logged([st EXCEPT !.output_surfaces =
                IF handle = VDP_INVALID_HANDLE THEN @ ELSE @ \cup {handle}],
           "vdpau_output_surface_create", handle)

vdpau_output_surface_destroy(st, handle) ==
    Logged([st EXCEPT !.output_surfaces = @ \ {handle}],
           "vdpau_output_surface_destroy", handle)

\* vdpau_CreateBuffer: the id of the new buffer, NO_BUFFER on failure.
NewBuffer(st, ok) ==
    IF ok /\ object_heap_allocate(st.buffer_heap) >= 0
    THEN object_heap_allocate(st.buffer_heap) ELSE NO_BUFFER

vdpau_CreateBuffer(st, buf, size) ==
    Logged([st EXCEPT !.buffer_heap =
                IF buf = NO_BUFFER THEN @
                ELSE HeapAllocated(@, buf, [allocated |-> TRUE, size |-> size])],
           "vdpau_CreateBuffer", buf)

\* vdpau_DestroyBuffer: releases the buffer when the id resolves.
vdpau_DestroyBuffer(st, buf) ==
    Logged(IF VDPAU_BUFFER(st, buf).allocated
           THEN [st EXCEPT !.buffer_heap = object_heap_free(@, buf, NullBuffer)]
           ELSE st,
           "vdpau_DestroyBuffer", buf)

vdpau_DestroyBuffer_status(st, buf) ==
    IF VDPAU_BUFFER(st, buf).allocated
    THEN VA_STATUS_SUCCESS ELSE VA_STATUS_ERROR_INVALID_BUFFER

\* --------------------------------------------------------- vaDestroyImage

Result(st, status) == [st |-> st, status |-> status]

\* A variant of the teardown that releases the backing buffer first and
\* the companion surface last.
DestroyImageTeardown_BufferFirst(st, obj_image, image_id) ==
    LET image == obj_image.image
        s1 == vdpau_DestroyBuffer(st, image.buf)
        s2 == Logged([s1 EXCEPT !.image_heap =
                         object_heap_free(@, image_id, NullImage)],
                     "object_heap_free", image_id)
        s3 == IF obj_image.vdp_rgba_surface # VDP_INVALID_HANDLE
              THEN vdpau_output_surface_destroy(s2, obj_image.vdp_rgba_surface)
              ELSE s2
    IN Result(s3, vdpau_DestroyBuffer_status(st, image.buf))

\* A variant of the teardown that leaves the companion surface alone.
DestroyImageTeardown_KeepSurface(st, obj_image, image_id) ==
    LET image == obj_image.image
        s2 == Logged([st EXCEPT !.image_heap =
                         object_heap_free(@, image_id, NullImage)],
                     "object_heap_free", image_id)
        s3 == vdpau_DestroyBuffer(s2, image.buf)
    IN Result(s3, vdpau_DestroyBuffer_status(s2, image.buf))

\* What vdpau_DestroyImage does once both lookups succeeded.
DestroyImageTeardown(st, obj_image, image_id) ==
    LET image == obj_image.image
        s1 == IF obj_image.vdp_rgba_surface # VDP_INVALID_HANDLE
              THEN vdpau_output_surface_destroy(st, obj_image.vdp_rgba_surface)
              ELSE st
        s2 == Logged([s1 EXCEPT !.image_heap =
                         object_heap_free(@, image_id, NullImage)],
                     "object_heap_free", image_id)
        s3 == vdpau_DestroyBuffer(s2, image.buf)
    IN Result(s3, vdpau_DestroyBuffer_status(s2, image.buf))

\* A variant of vdpau_DestroyImage that takes the slot of image_id as it
\* is, without asking the heap whether it holds an object.
DestroyImage_NoLookup(st, image_id) ==
    IF image_id \notin DOMAIN st.image_heap.obj
    THEN Result(st, VA_STATUS_ERROR_INVALID_IMAGE)
    ELSE DestroyImageTeardown(st, st.image_heap.obj[image_id], image_id)

\* vdpau_DestroyImage.  obj_image->image is set as soon as the slot is
\* allocated, so the second lookup fails only together with the first.
DestroyImage(st, image_id) ==
    LET obj_image == VDPAU_IMAGE(st, image_id)
    IN IF ~obj_image.allocated
       THEN Result(st, VA_STATUS_ERROR_INVALID_IMAGE)
       ELSE DestroyImageTeardown(st, obj_image, image_id)

\* ---------------------------------------------------------- vaCreateImage

\* What the caller gets back: the status and the VAImage as the call left
\* it (image_id is 0 until a slot was allocated).
Created(st, status, image) == [st |-> st, status |-> status, image |-> image]

\* A variant of the error exit that returns without the teardown.
CreateImageError_NoTeardown(st, image, va_status) ==
    Created(st, va_status, image)

\* The error exit: the teardown of vdpau_DestroyImage, whose own status is
\* dropped.
CreateImageError(st, image, va_status) ==
    Created(DestroyImage(st, image.image_id).st, va_status, image)

\* The tail of vdpau_CreateImage, from the buffer allocation on.  st holds
\* the object with its companion surface; image holds the layout.
CreateImageBuffer(st, image, format, width, height, buf_ok) ==
    LET buf == NewBuffer(st, buf_ok)
        s1 == vdpau_CreateBuffer(st, buf, image.data_size)
        done == [image EXCEPT !.buf = buf, !.format = format,
                              !.width = width, !.height = height]
    IN IF buf = NO_BUFFER
       THEN CreateImageError(s1, image, VA_STATUS_ERROR_ALLOCATION_FAILED)
       ELSE Created([s1 EXCEPT !.image_heap.obj[image.image_id].image = done],
                    VA_STATUS_SUCCESS, done)

\* vdpau_CreateImage.  has_format and has_image say whether the caller
\* passed a format and a VAImage; surf_ok and buf_ok are the answers of the
\* accelerator and of the buffer allocator.
CreateImage(st, has_format, format, width, height, has_image, surf_ok, buf_ok) ==
    IF ~has_format
    THEN Created(st, VA_STATUS_ERROR_INVALID_PARAMETER, NullVAImage)
    ELSE IF ~has_image
    THEN Created(st, VA_STATUS_ERROR_INVALID_IMAGE, NullVAImage)
    ELSE IF object_heap_allocate(st.image_heap) < 0
    THEN Created(st, VA_STATUS_ERROR_ALLOCATION_FAILED, NullVAImage)
    ELSE
      LET image_id == object_heap_allocate(st.image_heap)
          image0 == [NullVAImage EXCEPT !.image_id = image_id]
          s0 == Logged([st EXCEPT !.image_heap =
                           HeapAllocated(@, image_id,
                               [allocated |-> TRUE, image |-> image0,
                                vdp_rgba_surface |-> VDP_INVALID_HANDLE])],
                       "object_heap_allocate", image_id)
          layout == ImageLayout(format.fourcc, width, height)
          image1 == [image0 EXCEPT !.num_planes = layout.num_planes,
                                   !.pitches = layout.pitches,
                                   !.offsets = layout.offsets,
                                   !.data_size = layout.data_size]
          handle == NewOutputSurface(s0, surf_ok)
          s1 == [vdpau_output_surface_create(s0, handle) EXCEPT
                    !.image_heap.obj[image_id].vdp_rgba_surface = handle]
      IN CASE format.fourcc \in {"NV12", "YV12", "UYVY", "YUYV"} ->
                CreateImageBuffer(s0, image1, format, width, height, buf_ok)
           [] format.fourcc = "RGBA" ->
                IF get_VdpRGBAFormat(format) = NOT_FOUND
                THEN CreateImageError(s0, image0,
                                      VA_STATUS_ERROR_OPERATION_FAILED)
                ELSE IF handle = VDP_INVALID_HANDLE
                THEN CreateImageError(s1, image0,
                                      VA_STATUS_ERROR_OPERATION_FAILED)
                ELSE CreateImageBuffer(s1, image1, format, width, height,
                                       buf_ok)
           [] OTHER ->
                CreateImageError(s0, image0, VA_STATUS_ERROR_OPERATION_FAILED)

\* ------------------------------------------------------------- vaGetImage

\* A variant of the full-surface test that does not look at y.
is_full_surface_NoY(obj_surface, x, y, width, height) ==
    /\ x = 0
    /\ obj_surface.width = width
    /\ obj_surface.height = height

is_full_surface(obj_surface, x, y, width, height) ==
    /\ x = 0
    /\ y = 0
    /\ obj_surface.width = width
    /\ obj_surface.height = height

Plane(image, i) == [offset |-> image.offsets[i], pitch |-> image.pitches[i]]

\* A variant of the destinations that hands every plane its own offset and
\* pitch, whatever the fourcc.
GetImagePlanes_NoSwap(image, is_yuv_format) ==
    [i \in 1..image.num_planes |-> Plane(image, i)]

\* src[] and src_stride[] as the accelerator receives them: the offset from
\* the buffer's base and the pitch for each plane index (from 1 here).
GetImagePlanes(image, is_yuv_format) ==
    LET src == [i \in 1..image.num_planes |-> Plane(image, i)]
    IN IF is_yuv_format /\ image.format.fourcc = "YV12"
       THEN [src EXCEPT ![2] = Plane(image, 3), ![3] = Plane(image, 2)]
       ELSE src

Rect(x, y, width, height) ==
    [x0 |-> x, y0 |-> y, x1 |-> x + width, y1 |-> y + height]

\* A variant of the RGBA path that reads the companion surface whatever the
\* compositing pass returned.
GetImageRGBA_ReadAlways(st, obj_context, obj_surface, obj_image, r, src, render_status, bits_status) ==
    LET s1 == Logged(st, "vdpau_video_mixer_render",
                     [mixer |-> obj_context.vdp_video_mixer,
                      source |-> obj_surface.vdp_surface,
                      destination |-> obj_image.vdp_rgba_surface,
                      rect |-> r, status |-> render_status])
        s2 == Logged(s1, "vdpau_output_surface_get_bits_native",
                     [surface |-> obj_image.vdp_rgba_surface, rect |-> r,
                      dst |-> src, status |-> bits_status])
    IN Result(s2, vdpau_get_VAStatus(bits_status))

\* The RGBA path of vdpau_GetImage once the context is resolved.
GetImageRGBA(st, obj_context, obj_surface, obj_image, r, src, render_status, bits_status) ==
    LET s1 == Logged(st, "vdpau_video_mixer_render",
                     [mixer |-> obj_context.vdp_video_mixer,
                      source |-> obj_surface.vdp_surface,
                      destination |-> obj_image.vdp_rgba_surface,
                      rect |-> r, status |-> render_status])
        s2 == Logged(s1, "vdpau_output_surface_get_bits_native",
                     [surface |-> obj_image.vdp_rgba_surface, rect |-> r,
                      dst |-> src, status |-> bits_status])
    IN IF render_status # VDP_STATUS_OK
       THEN Result(s1, vdpau_get_VAStatus(render_status))
       ELSE Result(s2, vdpau_get_VAStatus(bits_status))

NullSurface ==
    [allocated |-> FALSE, width |-> 0, height |-> 0,
     vdp_surface |-> VDP_INVALID_HANDLE, va_context |-> 0]

NullContext == [allocated |-> FALSE, vdp_video_mixer |-> VDP_INVALID_HANDLE]

VDPAU_SURFACE(surfaces, surface) ==
    IF surface \in DOMAIN surfaces /\ surfaces[surface].allocated
    THEN surfaces[surface] ELSE NullSurface

VDPAU_CONTEXT(contexts, context) ==
    IF context \in DOMAIN contexts /\ contexts[context].allocated
    THEN contexts[context] ELSE NullContext

\* vdpau_GetImage.  render_status and bits_status are what the accelerator
\* answers to the compositing pass and to the read-bits call.
GetImage(st, surfaces, contexts, surface, x, y, width, height, image_id, render_status, bits_status) ==
    LET obj_surface == VDPAU_SURFACE(surfaces, surface)
        obj_image == VDPAU_IMAGE(st, image_id)
        image == obj_image.image
        obj_buffer == VDPAU_BUFFER(st, image.buf)
        is_yuv_format == obj_image.vdp_rgba_surface = VDP_INVALID_HANDLE
        src == GetImagePlanes(image, is_yuv_format)
        obj_context == VDPAU_CONTEXT(contexts, obj_surface.va_context)
    IN IF ~obj_surface.allocated
       THEN Result(st, VA_STATUS_ERROR_INVALID_SURFACE)
       ELSE IF ~is_full_surface(obj_surface, x, y, width, height)
       THEN Result(st, VA_STATUS_ERROR_INVALID_PARAMETER)
       ELSE IF ~obj_image.allocated
       THEN Result(st, VA_STATUS_ERROR_INVALID_IMAGE)
       ELSE IF ~obj_buffer.allocated
       THEN Result(st, VA_STATUS_ERROR_INVALID_BUFFER)
       ELSE IF is_yuv_format /\ get_VdpYCbCrFormat(image.format) = NOT_FOUND
       THEN Result(st, VA_STATUS_ERROR_OPERATION_FAILED)
       ELSE IF ~is_yuv_format /\ get_VdpRGBAFormat(image.format) = NOT_FOUND
       THEN Result(st, VA_STATUS_ERROR_OPERATION_FAILED)
       ELSE IF is_yuv_format
       THEN Result(Logged(st, "vdpau_video_surface_get_bits_ycbcr",
                          [surface |-> obj_surface.vdp_surface,
                           format |-> get_VdpYCbCrFormat(image.format),
                           dst |-> src, status |-> bits_status]),
                   vdpau_get_VAStatus(bits_status))
       ELSE IF ~obj_context.allocated
       THEN Result(st, VA_STATUS_ERROR_INVALID_CONTEXT)
       ELSE GetImageRGBA(st, obj_context, obj_surface, obj_image,
                         Rect(x, y, width, height), src,
                         render_status, bits_status)

\* ------------------------------------------------------ the state machine

VARIABLES
    image_heap,       \* driver_data->image_heap
    buffer_heap,      \* driver_data->buffer_heap
    output_surfaces,  \* the accelerator's live output surfaces
    surface_heap,     \* driver_data->surface_heap: the decode surfaces
    context_heap,     \* driver_data->context_heap
    caps,             \* the accelerator's capability state
    dims,             \* the width and height asked of the layout planner
    probe,            \* the last vaQueryImageFormats without a format_list
    fill,             \* the last vaQueryImageFormats with a format_list
    last,             \* the last call: its arguments, status and log
    created_ids,      \* history: the ids vaCreateImage has returned
    live_ids          \* history: those of them not passed to vaDestroyImage since

vars == <<image_heap, buffer_heap, output_surfaces, surface_heap, context_heap, caps, dims, probe, fill, last, created_ids, live_ids>>

\* The driver state a handler starts from, with an empty log.
St ==
    [image_heap |-> image_heap, buffer_heap |-> buffer_heap,
     output_surfaces |-> output_surfaces, trace |-> << >>]

\* The decode surfaces: a 2x2 surface of context 1 and a 1x2 surface of no
\* context (surfaces are created before the context that decodes to them).
SurfaceTable ==
    [s \in {1, 2} |->
        IF s = 1
        THEN [allocated |-> TRUE, width |-> 2, height |-> 2,
              vdp_surface |-> 1, va_context |-> 1]
        ELSE [allocated |-> TRUE, width |-> 1, height |-> 2,
              vdp_surface |-> 2, va_context |-> 0]]

ContextTable == [c \in {1} |-> [allocated |-> TRUE, vdp_video_mixer |-> 1]]

\* Surface ids a caller passes: the surfaces and an id of none.
SurfaceArgs == DOMAIN SurfaceTable \cup {Cardinality(DOMAIN SurfaceTable) + 1}

\* Image ids a caller passes: the slots of the heap and an id outside it.
ImageArgs == ImageIds \cup {MaxImages + 1}

\* Formats a caller passes: the catalog's, an RGBA descriptor whose masks
\* are in no catalog entry, a big-endian RGBA descriptor, and a fourcc the
\* catalog does not know.
FormatArgs ==
    {vdpau_image_formats_map[i].va_format : i \in CatalogIdx}
    \cup {VaRgb("RGBA", "LSB", 32, 32, "0x0000ff00", "0x00ff0000", "0xff000000", "0x000000ff"),
          VaRgb("RGBA", "MSB", 32, 32, "0x000000ff", "0x0000ff00", "0x00ff0000", "0xff000000"),
          VaYuv("I420", 12)}

AllSupported ==
    [i \in CatalogIdx |-> [status |-> VDP_STATUS_OK, is_supported |-> TRUE]]

NoCall == [op |-> "none", status |-> VA_STATUS_SUCCESS, trace |-> << >>]

NoQuery == [called |-> FALSE, num_formats |-> 0, format_list |-> << >>]

InitWith(ids, cap, wh) ==
    /\ image_heap = EmptyHeap(ids, NullImage)
    /\ buffer_heap = EmptyHeap(ids, NullBuffer)
    /\ output_surfaces = {}
    /\ surface_heap = SurfaceTable
    /\ context_heap = ContextTable
    /\ caps = cap
    /\ dims = wh
    /\ probe = NoQuery
    /\ fill = NoQuery
    /\ last = NoCall
    /\ created_ids = {}
    /\ live_ids = {}

Init == InitWith(ImageIds, AllSupported, <<0, 0>>)

vdpau_CreateImage(has_format, format, width, height, has_image, surf_ok, buf_ok) ==
    \E r \in {CreateImage(St, has_format, format, width, height, has_image, surf_ok, buf_ok)} :
       /\ image_heap' = r.st.image_heap
       /\ buffer_heap' = r.st.buffer_heap
       /\ output_surfaces' = r.st.output_surfaces
       /\ last' = [op |-> "CreateImage", has_format |-> has_format,
                   format |-> format, width |-> width, height |-> height,
                   has_image |-> has_image, status |-> r.status,
                   image |-> r.image, trace |-> r.st.trace]
       /\ created_ids' = IF r.status = VA_STATUS_SUCCESS
                         THEN created_ids \cup {r.image.image_id}
                         ELSE created_ids
       /\ live_ids' = IF r.status = VA_STATUS_SUCCESS
                      THEN live_ids \cup {r.image.image_id}
                      ELSE live_ids
       /\ UNCHANGED <<surface_heap, context_heap, caps, dims, probe, fill>>

vdpau_DestroyImage(image_id) ==
    \E r \in {DestroyImage(St, image_id)} :
       /\ image_heap' = r.st.image_heap
       /\ buffer_heap' = r.st.buffer_heap
       /\ output_surfaces' = r.st.output_surfaces
       /\ last' = [op |-> "DestroyImage", image_id |-> image_id,
                   was_live |-> image_id \in live_ids,
                   obj |-> IF image_id \in DOMAIN image_heap.obj
                           THEN image_heap.obj[image_id] ELSE NullImage,
                   status |-> r.status, trace |-> r.st.trace]
       /\ live_ids' = live_ids \ {image_id}
       /\ UNCHANGED <<surface_heap, context_heap, caps, dims, probe, fill, created_ids>>

vdpau_GetImage(surface, x, y, width, height, image_id, render_status, bits_status) ==
    \E r \in {GetImage(St, surface_heap, context_heap, surface, x, y, width, height, image_id, render_status, bits_status)} :
       /\ image_heap' = r.st.image_heap
       /\ buffer_heap' = r.st.buffer_heap
       /\ output_surfaces' = r.st.output_surfaces
       /\ last' = [op |-> "GetImage", surface |-> surface, x |-> x, y |-> y,
                   width |-> width, height |-> height,
                   image_id |-> image_id, status |-> r.status,
                   trace |-> r.st.trace]
       /\ UNCHANGED <<surface_heap, context_heap, caps, dims, probe, fill, created_ids, live_ids>>

vdpau_QueryImageFormats(has_format_list, has_num_formats) ==
    \E r \in {QueryImageFormats(caps, has_format_list, has_num_formats)} :
       /\ probe' = IF has_format_list THEN probe
                   ELSE [called |-> TRUE, num_formats |-> r.num_formats,
                         format_list |-> r.format_list]
       /\ fill' = IF has_format_list
                  THEN [called |-> TRUE, num_formats |-> r.num_formats,
                        format_list |-> r.format_list]
                  ELSE fill
       /\ last' = [op |-> "QueryImageFormats",
                   has_format_list |-> has_format_list,
                   has_num_formats |-> has_num_formats,
                   status |-> r.status, trace |-> << >>]
       /\ UNCHANGED <<image_heap, buffer_heap, output_surfaces, surface_heap, context_heap, caps, dims, created_ids, live_ids>>

\* The answers of the collaborators that a call of vdpau_CreateImage can
\* tell apart: the accelerator is asked for a surface only for RGBA, and the
\* buffer allocator only once the surface exists.
CreateAnswers(format, surf_ok, buf_ok) ==
    /\ (format.fourcc # "RGBA" => surf_ok)
    /\ (~surf_ok => buf_ok)

\* The answers of the accelerator that a call of vdpau_GetImage can tell
\* apart: no bits are read after a failed compositing pass.
GetAnswers(render_status, bits_status) ==
    render_status # VDP_STATUS_OK => bits_status = VDP_STATUS_OK

\* The rectangles a caller passes for a surface: the surface's extent and
\* the rectangles that differ from it in one of x, y, width and height (for
\* the id of no surface, one rectangle).
RectArgs(surface) ==
    LET s == VDPAU_SURFACE(SurfaceTable, surface)
        Off(x, y, width, height) ==
            Cardinality({k \in 1..4 :
                \/ k = 1 /\ x # 0
                \/ k = 2 /\ y # 0
                \/ k = 3 /\ width # s.width
                \/ k = 4 /\ height # s.height})
    IN IF ~s.allocated THEN {<<0, 0, 1, 1>>}
       ELSE {r \in {0, 1} \X {0, 1} \X (1..MaxDim) \X (1..MaxDim) :
                Off(r[1], r[2], r[3], r[4]) <= 1}

\* vaCreateImage with a format or an image argument missing.
CreateImageNullArgs ==
    \E has_format \in BOOLEAN, has_image \in BOOLEAN :
        /\ ~(has_format /\ has_image)
        /\ vdpau_CreateImage(has_format, VaYuv("NV12", 12), 1, 1, has_image, TRUE, TRUE)

\* The image lifecycle: every format argument, square images, and the
\* full-extent readback of each surface.
Next ==
    \/ \E format \in FormatArgs, width \in 1..MaxDim, surf_ok \in BOOLEAN, buf_ok \in BOOLEAN :
          /\ CreateAnswers(format, surf_ok, buf_ok)
          /\ vdpau_CreateImage(TRUE, format, width, width, TRUE, surf_ok, buf_ok)
    \/ CreateImageNullArgs
    \/ \E image_id \in ImageArgs : vdpau_DestroyImage(image_id)
    \/ \E surface \in DOMAIN SurfaceTable, image_id \in ImageArgs, render_status \in VdpStatuses, bits_status \in VdpStatuses :
          /\ GetAnswers(render_status, bits_status)
          /\ vdpau_GetImage(surface, 0, 0, SurfaceTable[surface].width, SurfaceTable[surface].height, image_id, render_status, bits_status)

Spec == Init /\ [][Next]_vars

\* The readback: one image at a time, of every format and of every width
\* and height in 1..MaxDim, read from every surface with every rectangle.
InitReadback == InitWith({1}, AllSupported, <<0, 0>>)

NextReadback ==
    \/ \E format \in FormatArgs, width \in 1..MaxDim, height \in 1..MaxDim, surf_ok \in BOOLEAN, buf_ok \in BOOLEAN :
          /\ CreateAnswers(format, surf_ok, buf_ok)
          /\ vdpau_CreateImage(TRUE, format, width, height, TRUE, surf_ok, buf_ok)
    \/ \E image_id \in {1, 2} : vdpau_DestroyImage(image_id)
    \/ \E surface \in SurfaceArgs, image_id \in {1, 2}, render_status \in VdpStatuses, bits_status \in VdpStatuses :
          \E r \in RectArgs(surface) :
              /\ GetAnswers(render_status, bits_status)
              /\ vdpau_GetImage(surface, r[1], r[2], r[3], r[4], image_id, render_status, bits_status)

SpecReadback == InitReadback /\ [][NextReadback]_vars

\* The plane layout planner: a width and a height drawn from
\* 0..MaxLayoutDim, or 1920 and 1080, and images of every format argument
\* created with them, one at a time.
InitLayout ==
    \E wh \in ((0..MaxLayoutDim) \X (0..MaxLayoutDim)) \cup {<<1920, 1080>>} :
        InitWith({1}, AllSupported, wh)

NextLayout ==
    \/ \E format \in FormatArgs, surf_ok \in BOOLEAN, buf_ok \in BOOLEAN :
          /\ CreateAnswers(format, surf_ok, buf_ok)
          /\ vdpau_CreateImage(TRUE, format, dims[1], dims[2], TRUE, surf_ok, buf_ok)
    \/ \E image_id \in {1} : vdpau_DestroyImage(image_id)

SpecLayout == InitLayout /\ [][NextLayout]_vars

\* The format enumeration, over every capability state of the accelerator.
InitQuery == \E cap \in CapStates : InitWith(ImageIds, cap, <<0, 0>>)

NextQuery ==
    \E has_format_list \in BOOLEAN, has_num_formats \in BOOLEAN :
        vdpau_QueryImageFormats(has_format_list, has_num_formats)

SpecQuery == InitQuery /\ [][NextQuery]_vars

\* The enumeration followed by the creation of what it listed: every
\* capability state of the accelerator, a fill call, and images created
\* from the descriptors the fill call wrote, one at a time.
\* The answers for one catalog entry that decide whether a fill call lists
\* it: supported, reported unsupported, and a failed query.
EnumerateCapAnswers ==
    {[status |-> VDP_STATUS_OK, is_supported |-> TRUE],
     [status |-> VDP_STATUS_OK, is_supported |-> FALSE],
     [status |-> VDP_STATUS_ERROR, is_supported |-> TRUE]}

InitEnumerate ==
    \E cap \in [CatalogIdx -> EnumerateCapAnswers] : InitWith({1}, cap, <<0, 0>>)

\* vaCreateImage with the k-th descriptor of the last filled format_list,
\* the accelerator and the buffer allocator granting what they are asked.
CreateImageEnumerated(k, width, height) ==
    /\ fill.called
    /\ k \in 1..Len(fill.format_list)
    /\ vdpau_CreateImage(TRUE, fill.format_list[k], width, height, TRUE, TRUE, TRUE)

NextEnumerate ==
    \/ \E has_num_formats \in BOOLEAN : vdpau_QueryImageFormats(TRUE, has_num_formats)
    \/ \E k \in CatalogIdx, width \in 1..MaxDim :
          CreateImageEnumerated(k, width, width)
    \/ \E image_id \in {1} : vdpau_DestroyImage(image_id)

SpecEnumerate == InitEnumerate /\ [][NextEnumerate]_vars

\* ------------------------------------------------------------- the claims

\* The places in a log of the calls on one collaborator.
CallsOf(trace, call) == {i \in DOMAIN trace : trace[i].call = call}

\* The allocated slots of the image heap.
LiveImages == {id \in DOMAIN image_heap.obj : image_heap.obj[id].allocated}

LiveBuffers == {b \in DOMAIN buffer_heap.obj : buffer_heap.obj[b].allocated}

\* C1: a vaCreateImage that fails after its heap slot was allocated (fourcc
\* without a case, RGBA descriptor not in the catalog, companion surface
\* refused, backing buffer refused) returns with the slot free again and at
\* the head of the free list, so that the next allocation returns the same
\* id, and with no companion surface and no buffer of its own left live.
C1_FailedCreateUnwinds ==
    \A i \in CallsOf(last.trace, "object_heap_allocate") :
        (last.op = "CreateImage" /\ last.status # VA_STATUS_SUCCESS) =>
            /\ ~image_heap.obj[last.trace[i].arg].allocated
            /\ image_heap.free # << >>
            /\ Head(image_heap.free) = last.trace[i].arg
            /\ \A j \in CallsOf(last.trace, "vdpau_output_surface_create") :
                   last.trace[j].arg \notin output_surfaces
            /\ \A j \in CallsOf(last.trace, "vdpau_CreateBuffer") :
                   last.trace[j].arg \notin LiveBuffers

\* C1's case: the buffer allocation failed after the companion surface of
\* an RGBA image had been created.
C1_Witness ==
    /\ last.op = "CreateImage"
    /\ last.status = VA_STATUS_ERROR_ALLOCATION_FAILED
    /\ CallsOf(last.trace, "object_heap_allocate") # {}
    /\ \E j \in CallsOf(last.trace, "vdpau_output_surface_create") :
           last.trace[j].arg # VDP_INVALID_HANDLE
    /\ \E j \in CallsOf(last.trace, "vdpau_CreateBuffer") :
           last.trace[j].arg = NO_BUFFER

\* C2: vaDestroyImage on an id that names no image (never returned by
\* vaCreateImage, or passed to vaDestroyImage since it was) returns
\* INVALID_IMAGE and calls no collaborator: it releases no companion
\* surface, no backing buffer and no slot.
C2_DeadIdIsInvalid ==
    (last.op = "DestroyImage" /\ ~last.was_live) =>
        /\ last.status = VA_STATUS_ERROR_INVALID_IMAGE
        /\ last.trace = << >>

\* C2's case: the second vaDestroyImage of an image.
C2_Witness ==
    /\ last.op = "DestroyImage"
    /\ ~last.was_live
    /\ last.image_id \in created_ids
    /\ last.status = VA_STATUS_ERROR_INVALID_IMAGE

\* C4 as the specification states it: the companion surface, then the
\* backing buffer, and only then the heap slot.
C4_BufferBeforeSlot ==
    (last.op = "DestroyImage" /\ last.was_live) =>
        \A i \in CallsOf(last.trace, "object_heap_free") :
            /\ \A j \in CallsOf(last.trace, "vdpau_DestroyBuffer") : j < i
            /\ \A j \in CallsOf(last.trace, "vdpau_output_surface_destroy") : j < i

\* C4, amended: a vaDestroyImage whose lookup succeeds releases the
\* companion surface first (only when it is not the invalid handle), then
\* the heap slot, and the backing buffer last.
C4_SurfaceSlotBuffer ==
    (last.op = "DestroyImage" /\ last.was_live) =>
        last.trace =
            (IF last.obj.vdp_rgba_surface # VDP_INVALID_HANDLE
             THEN << Ev("vdpau_output_surface_destroy", last.obj.vdp_rgba_surface) >>
             ELSE << >>)
            \o << Ev("object_heap_free", last.image_id),
                  Ev("vdpau_DestroyBuffer", last.obj.image.buf) >>

\* C4's case: the vaDestroyImage of an image that has a companion surface.
C4_Witness ==
    /\ last.op = "DestroyImage"
    /\ last.was_live
    /\ last.obj.vdp_rgba_surface # VDP_INVALID_HANDLE
    /\ Len(last.trace) = 3

\* C9: after any calls of vaCreateImage, vaDestroyImage and vaGetImage the
\* live images are the allocated slots; every live image has a live backing
\* buffer, and a live companion surface exactly when its fourcc is RGBA
\* (the invalid handle otherwise); no buffer and no companion surface
\* belongs to two live images; every live buffer and every live output
\* surface belongs to a live image.
C9_Ownership ==
    /\ LiveImages = live_ids
    /\ \A id \in LiveImages :
          LET obj == image_heap.obj[id]
          IN /\ obj.image.buf \in LiveBuffers
             /\ (obj.image.format.fourcc = "RGBA") <=>
                    (obj.vdp_rgba_surface # VDP_INVALID_HANDLE)
             /\ obj.vdp_rgba_surface # VDP_INVALID_HANDLE =>
                    obj.vdp_rgba_surface \in output_surfaces
    /\ \A a \in LiveImages, b \in LiveImages :
          a # b =>
             /\ image_heap.obj[a].image.buf # image_heap.obj[b].image.buf
             /\ image_heap.obj[a].vdp_rgba_surface # VDP_INVALID_HANDLE =>
                   image_heap.obj[a].vdp_rgba_surface #
                       image_heap.obj[b].vdp_rgba_surface
    /\ \A b \in LiveBuffers :
          \E id \in LiveImages : image_heap.obj[id].image.buf = b
    /\ \A h \in output_surfaces :
          \E id \in LiveImages : image_heap.obj[id].vdp_rgba_surface = h

\* C9's case: two live images, one RGBA and one not, after an image was
\* destroyed and a readback was made.
C9_Witness ==
    /\ last.op = "GetImage"
    /\ Cardinality(LiveImages) = 2
    /\ created_ids = ImageIds
    /\ \E a \in LiveImages, b \in LiveImages :
          /\ image_heap.obj[a].image.format.fourcc = "RGBA"
          /\ image_heap.obj[b].image.format.fourcc = "YV12"

\* The image a vaGetImage was called on, and its surface (the null objects
\* when the id names none).
GotImage ==
    IF last.image_id \in LiveImages
    THEN image_heap.obj[last.image_id] ELSE NullImage

GotSurface ==
    IF last.surface \in DOMAIN surface_heap
    THEN surface_heap[last.surface] ELSE NullSurface

\* The rectangle of the last vaGetImage is the extent of its surface.
FullExtent ==
    /\ last.x = 0
    /\ last.y = 0
    /\ last.width = GotSurface.width
    /\ last.height = GotSurface.height

ReadBitsCalls(trace) ==
    CallsOf(trace, "vdpau_video_surface_get_bits_ycbcr")
    \cup CallsOf(trace, "vdpau_output_surface_get_bits_native")

\* C5: a vaGetImage on an existing surface with a rectangle that is not the
\* surface's extent returns INVALID_PARAMETER whatever the image id is,
\* calls no collaborator, and leaves the image heap, the buffer heap, the
\* output surfaces and the surfaces as they were.
C5_PartialRectangleRejected ==
    [][(/\ last'.op = "GetImage"
        /\ GotSurface'.allocated
        /\ ~FullExtent')
       => /\ last'.status = VA_STATUS_ERROR_INVALID_PARAMETER
          /\ last'.trace = << >>
          /\ UNCHANGED <<image_heap, buffer_heap, output_surfaces, surface_heap, context_heap>>]_vars

\* C5's case: a rectangle that starts at y = 1, with the id of no image.
C5_Witness ==
    /\ last.op = "GetImage"
    /\ GotSurface.allocated
    /\ last.y = 1 /\ last.x = 0
    /\ last.width = GotSurface.width /\ last.height = GotSurface.height
    /\ last.image_id \notin LiveImages
    /\ last.status = VA_STATUS_ERROR_INVALID_PARAMETER

\* The least k with 2k >= n.
CeilHalf(n) == CHOOSE k \in 0..n : 2 * k >= n /\ 2 * (k - 1) < n

\* The layout C6 states for a fourcc, a width and a height.
StatedLayout(fourcc, width, height) ==
    LET size  == width * height
        size2 == CeilHalf(width) * CeilHalf(height)
    IN IF fourcc = "NV12"
       THEN [num_planes |-> 2, pitches |-> <<width, width>>,
             offsets |-> <<0, size>>, data_size |-> size + 2 * size2]
       ELSE IF fourcc = "YV12"
       THEN [num_planes |-> 3,
             pitches |-> <<width, CeilHalf(width), CeilHalf(width)>>,
             offsets |-> <<0, size + size2, size>>,
             data_size |-> size + 2 * size2]
       ELSE [num_planes |-> 1, pitches |-> <<width * 4>>, offsets |-> <<0>>,
             data_size |-> width * 4 * height]

\* C6: the layout a successful vaCreateImage stores, in the image of the
\* heap and in the VAImage it returns, is the stated one for NV12, YV12,
\* RGBA, UYVY and YUYV, for every width and height in 0..MaxLayoutDim and
\* for 1920 by 1080 (NV12: offsets 0 and 2073600, data_size 3110400); a
\* fourcc outside these five never succeeds, and fails with
\* OPERATION_FAILED once a slot was allocated.
C6_Layout ==
    last.op = "CreateImage" =>
        /\ last.status = VA_STATUS_SUCCESS =>
              LET stored == image_heap.obj[last.image.image_id].image
                  stated == StatedLayout(last.format.fourcc, last.width,
                                         last.height)
              IN /\ last.format.fourcc \in {"NV12", "YV12", "RGBA", "UYVY", "YUYV"}
                 /\ stored = last.image
                 /\ stored.width = last.width /\ stored.height = last.height
                 /\ stored.num_planes = stated.num_planes
                 /\ stored.pitches = stated.pitches
                 /\ stored.offsets = stated.offsets
                 /\ stored.data_size = stated.data_size
                 /\ (/\ last.format.fourcc = "NV12"
                     /\ last.width = 1920 /\ last.height = 1080)
                    => /\ stored.offsets = <<0, 2073600>>
                       /\ stored.data_size = 3110400
        /\ (/\ last.has_format /\ last.has_image
            /\ last.format.fourcc \notin {"NV12", "YV12", "RGBA", "UYVY", "YUYV"}
            /\ CallsOf(last.trace, "object_heap_allocate") # {})
           => last.status = VA_STATUS_ERROR_OPERATION_FAILED

\* C6's case: a YV12 image of odd width and odd height.
C6_Witness ==
    /\ last.op = "CreateImage"
    /\ last.status = VA_STATUS_SUCCESS
    /\ last.format.fourcc = "YV12"
    /\ last.width = 3 /\ last.height = 3
    /\ last.image.offsets = <<0, 13, 9>>
    /\ last.image.data_size = 17

\* The destination of plane i of an image: the offset from the buffer's
\* base and the pitch.
StatedPlane(image, i) ==
    [offset |-> image.offsets[i], pitch |-> image.pitches[i]]

\* C7: in the YUV path of vaGetImage the accelerator receives, for plane
\* index i, the image's offsets[i] and pitches[i], except for a YV12 image,
\* for which the indices 1 and 2 (counted from 0) are exchanged, so that the
\* three destinations start at 0, size and size + size2.
C7_PlaneDestinations ==
    last.op = "GetImage" =>
        \A i \in CallsOf(last.trace, "vdpau_video_surface_get_bits_ycbcr") :
            LET image == GotImage.image
                dst == last.trace[i].arg.dst
                size == image.width * image.height
                size2 == CeilHalf(image.width) * CeilHalf(image.height)
            IN /\ GotImage.vdp_rgba_surface = VDP_INVALID_HANDLE
               /\ Len(dst) = image.num_planes
               /\ IF image.format.fourcc = "YV12"
                  THEN /\ dst = << StatedPlane(image, 1),
                                   StatedPlane(image, 3),
                                   StatedPlane(image, 2) >>
                       /\ dst[1].offset = 0
                       /\ dst[2].offset = size
                       /\ dst[3].offset = size + size2
                  ELSE \A k \in 1..Len(dst) : dst[k] = StatedPlane(image, k)

\* C7's case: the readback of a YV12 image.
C7_Witness ==
    /\ last.op = "GetImage"
    /\ GotImage.image.format.fourcc = "YV12"
    /\ GotImage.image.width = 2 /\ GotImage.image.height = 2
    /\ \E i \in CallsOf(last.trace, "vdpau_video_surface_get_bits_ycbcr") :
           /\ last.trace[i].arg.dst[2].offset = 4
           /\ last.trace[i].arg.dst[3].offset = 5

RenderCalls(trace) == CallsOf(trace, "vdpau_video_mixer_render")

NativeReads(trace) == CallsOf(trace, "vdpau_output_surface_get_bits_native")

\* The context of the surface of the last vaGetImage resolves.
ContextResolves ==
    /\ GotSurface.va_context \in DOMAIN context_heap
    /\ context_heap[GotSurface.va_context].allocated

\* C8 as the specification states it, read for the calls that pass the
\* argument checks (an existing surface and its full extent): on an image
\* with a valid companion surface the compositing pass is made exactly
\* once.
C8_RenderExactlyOnce ==
    (/\ last.op = "GetImage"
     /\ GotSurface.allocated
     /\ FullExtent
     /\ GotImage.vdp_rgba_surface # VDP_INVALID_HANDLE)
    => Cardinality(RenderCalls(last.trace)) = 1

\* C8, amended: in a vaGetImage on an image with a valid companion surface
\* the compositing pass is made exactly once when the surface exists, the
\* rectangle is its extent and the surface's context resolves, and not at
\* all otherwise; it comes before any read-bits call; the native RGBA bits
\* of the companion surface are read exactly when the pass returned
\* success, and a failed pass makes vaGetImage return that failure's
\* translation without reading bits.  On an image without a companion
\* surface (and on the id of no image) the pass is never made.
C8_RenderThenRead ==
    last.op = "GetImage" =>
        LET renders == RenderCalls(last.trace)
            reads   == ReadBitsCalls(last.trace)
        IN IF GotImage.vdp_rgba_surface # VDP_INVALID_HANDLE
           THEN /\ Cardinality(renders) =
                      IF GotSurface.allocated /\ FullExtent /\ ContextResolves
                      THEN 1 ELSE 0
                /\ \A i \in renders :
                      /\ last.trace[i].arg.destination = GotImage.vdp_rgba_surface
                      /\ \A j \in reads : i < j
                      /\ IF last.trace[i].arg.status = VDP_STATUS_OK
                         THEN /\ Cardinality(NativeReads(last.trace)) = 1
                              /\ \A j \in NativeReads(last.trace) :
                                    last.trace[j].arg.surface =
                                        GotImage.vdp_rgba_surface
                         ELSE /\ reads = {}
                              /\ last.status =
                                    vdpau_get_VAStatus(last.trace[i].arg.status)
                              /\ last.status # VA_STATUS_SUCCESS
                /\ renders = {} => reads = {}
                /\ reads \subseteq NativeReads(last.trace)
           ELSE renders = {}

\* C8's case: the readback of an RGBA image whose compositing pass
\* succeeded.
C8_Witness ==
    /\ last.op = "GetImage"
    /\ GotImage.vdp_rgba_surface # VDP_INVALID_HANDLE
    /\ Len(last.trace) = 2
    /\ last.trace[1].call = "vdpau_video_mixer_render"
    /\ last.trace[1].arg.status = VDP_STATUS_OK
    /\ last.trace[2].call = "vdpau_output_surface_get_bits_native"
    /\ last.status = VA_STATUS_SUCCESS

\* C10, read for the YCbCr read-bits call, which writes the whole surface:
\* whenever vaGetImage reaches it, the image is at least as wide and as
\* high as the surface, and the rows of the surface's first plane, laid
\* out with the image's pitch, end within the image's data_size bytes.
C10_ReadbackFitsBuffer ==
    (/\ last.op = "GetImage"
     /\ CallsOf(last.trace, "vdpau_video_surface_get_bits_ycbcr") # {})
    => /\ GotImage.image.width >= GotSurface.width
       /\ GotImage.image.height >= GotSurface.height
       /\ GotImage.image.offsets[1]
            + GotImage.image.pitches[1] * GotSurface.height
              <= GotImage.image.data_size

\* C3 as the specification states it: the count a count-only probe reports
\* is the count a fill call reports, and the number of entries it writes,
\* with the same accelerator state.
C3_ProbeCountIsFillCount ==
    (/\ probe.called /\ probe.num_formats >= 0
     /\ fill.called /\ fill.num_formats >= 0)
    => /\ probe.num_formats = fill.num_formats
       /\ probe.num_formats = Len(fill.format_list)

\* The catalog entries the accelerator supports: the query succeeds and
\* reports the format supported.
SupportedEntries ==
    {i \in CatalogIdx : caps[i].status = VDP_STATUS_OK /\ caps[i].is_supported}

\* The k-th supported entry, in catalog order.
SupportedEntry(k) ==
    CHOOSE i \in SupportedEntries :
        Cardinality({j \in SupportedEntries : j <= i}) = k

\* C3, amended: a count-only probe reports 0 and writes no entry, whatever
\* the accelerator supports; a fill call writes the descriptors of the
\* supported catalog entries, in catalog order, and the count it reports
\* is the number of entries it wrote.
C3_ProbeZeroFillCounts ==
    /\ probe.called =>
          /\ probe.num_formats \in {0, -1}
          /\ probe.format_list = << >>
    /\ fill.called =>
          /\ Len(fill.format_list) = Cardinality(SupportedEntries)
          /\ \A k \in 1..Len(fill.format_list) :
                fill.format_list[k] =
                    vdpau_image_formats_map[SupportedEntry(k)].va_format
          /\ fill.num_formats \in {Len(fill.format_list), -1}

\* C3's case: a probe and a fill call with an accelerator that supports
\* three formats, rejects a query and reports a format unsupported.
C3_Witness ==
    /\ probe.called /\ probe.num_formats = 0
    /\ fill.called /\ fill.num_formats = 3
    /\ Cardinality(SupportedEntries) = 3
    /\ \E i \in CatalogIdx : caps[i].status # VDP_STATUS_OK /\ caps[i].is_supported
    /\ \E i \in CatalogIdx : caps[i].status = VDP_STATUS_OK /\ ~caps[i].is_supported

\* The requests of the last call that a collaborator refused: an output
\* surface the accelerator did not create, a buffer the allocator did not
\* allocate.
RefusedRequests(trace) ==
    {i \in DOMAIN trace :
        \/ trace[i].call = "vdpau_output_surface_create"
              /\ trace[i].arg = VDP_INVALID_HANDLE
        \/ trace[i].call = "vdpau_CreateBuffer" /\ trace[i].arg = NO_BUFFER}

\* The descriptors the last fill call wrote.
EnumeratedFormats == {fill.format_list[k] : k \in DOMAIN fill.format_list}

\* C11: vaCreateImage, called with a descriptor that a fill call of
\* vaQueryImageFormats wrote and with a positive width and height, returns
\* VA_STATUS_SUCCESS whenever it got its heap slot and neither the
\* accelerator nor the buffer allocator refused it a resource.
C11_EnumeratedFormatCreates ==
    (/\ last.op = "CreateImage"
     /\ last.has_format /\ last.has_image
     /\ fill.called /\ last.format \in EnumeratedFormats
     /\ last.width > 0 /\ last.height > 0
     /\ CallsOf(last.trace, "object_heap_allocate") # {}
     /\ RefusedRequests(last.trace) = {})
    => last.status = VA_STATUS_SUCCESS

=============================================================================
